---------------------------- MODULE Spec2Model ----------------------------
(***************************************************************************)
(* Model of Opm::AnisotropicEikonal2d (opm/core/tof/AnisotropicEikonal.cpp, *)
(* here src/unnamed/part_000): the Ordered Upwind Method driver solve(),   *)
(* its local update computeValue() and the Considered queue helpers.       *)
(*                                                                         *)
(* Vectors indexed by cell (solution, is_accepted_, is_considered_) are    *)
(* functions on 0 .. size-1.  The heap considered_ is a function from     *)
(* handles to (value, cell) pairs; considered_handles_ maps a cell to its  *)
(* handle.  Values are the doubles 0.0, 1.0, 2.0 and 1e100 of the code,    *)
(* kept as integers with the same order.                                   *)
(***************************************************************************)
EXTENDS Integers, Sequences, FiniteSets, TLC

VARIABLES
    grid_,                \* the bound grid: dimensions, number_of_cells
    cell_neighbours_,     \* per cell, its ordered neighbour list
    tiebreak,             \* order of the heap among entries of equal value
    startcells,           \* argument of the running solve() call
    solution,             \* the caller's output vector
    is_accepted_,
    accepted_front_,
    considered_,
    considered_handles_,
    is_considered_,
    pc,                   \* position inside solve()
    rcell,                \* the cell popped in the current iteration (-1: none)
    assert_failed,        \* some assert() of the code has seen a false condition
    order,                \* history: cells in the order they were accepted
    iters,                \* history: main-loop iterations of the running call
    decreased,            \* history: cells whose key step 7 last lowered
    memo,                 \* history: <<output>> of the previous call when it had
                          \* the same startcells as the running one, else <<>>
    writes,               \* history: per cell, the stores into its solution
                          \* entry since step 1 of the running call
    other,                \* the arguments, locals and history of a second
                          \* solve() invocation on the instance, while suspended
    overlapped,           \* history: an invocation was suspended inside solve()
    rft                   \* EclipseWriteRFTHandler::writeTimeStep: its arguments,
                          \* locals, position and the RFT file (NoHandler: no call)

vars == <<grid_, cell_neighbours_, tiebreak, startcells, solution, is_accepted_,
          accepted_front_, considered_, considered_handles_, is_considered_,
          pc, rcell, assert_failed, order, iters, decreased, memo, writes,
          other, overlapped, rft>>

---------------------------------------------------------------------------
(* Bounds of the model. *)

\* Number of cells of the meshes enumerated by Init.
NumCells == 4

\* Largest length of the startcells argument.
MaxStart == 2

---------------------------------------------------------------------------
(* Values. *)

\* const double inf = 1e100; only its order against 0.0, 1.0, 2.0 matters.
inf == 1000000

Range(s) == {s[i] : i \in DOMAIN s}

Size(vec) == Cardinality(DOMAIN vec)

\* Mutant of clear: the vector keeps what it held.
clearMut(vec) == vec

\* std::vector::clear()
clear(vec) == <<>>

\* std::vector::resize(n, val) : keeps the entries present, fills the rest.
resize(vec, n, val) ==
    [i \in 0 .. (n - 1) |-> IF i \in DOMAIN vec THEN vec[i] ELSE val]

Cells == 0 .. (grid_.number_of_cells - 1)

\* The elements of a finite set of integers in ascending order.
RECURSIVE Ascending(_)
Ascending(S) ==
    IF S = {} THEN <<>>
    ELSE LET m == CHOOSE x \in S : \A y \in S : x <= y
         IN  <<m>> \o Ascending(S \ {m})

---------------------------------------------------------------------------
(* Neighbour topology.  The constructor stores vertexNeighbours(grid),     *)
(* ordered counter-clockwise: cells sharing a vertex, so the relation is   *)
(* symmetric, has no self loops and lists each neighbour once.             *)

\* Unordered pairs of distinct cells of an n-cell mesh.
CellPairs(n) == {p \in (0 .. (n - 1)) \X (0 .. (n - 1)) : p[1] < p[2]}

\* The neighbour table of the mesh in which exactly the pairs of E share a vertex.
vertexNeighbours(n, E) ==
    [c \in 0 .. (n - 1) |->
        Ascending({d \in 0 .. (n - 1) : <<c, d>> \in E \/ <<d, c>> \in E})]

\* The rank of the pair p among the pairs of distinct cells.
PairRank(p) == (p[2] * (p[2] - 1)) \div 2 + p[1]

RECURSIVE Pow2(_)
Pow2(k) == IF k = 0 THEN 1 ELSE 2 * Pow2(k - 1)

RECURSIVE MeshCode(_)
MeshCode(E) ==
    IF E = {} THEN 0
    ELSE LET p == CHOOSE x \in E : TRUE
         IN  Pow2(PairRank(p)) + MeshCode(E \ {p})

\* The mesh E with its cells renumbered by f.
Renumbered(f, E) ==
    {IF f[p[1]] < f[p[2]] THEN <<f[p[1]], f[p[2]]>> ELSE <<f[p[2]], f[p[1]]>> :
        p \in E}

\* The meshes of n cells enumerated: one for each mesh shape, that is, of the
\* meshes that differ only in the numbering of their cells, the one with the
\* least code.
Meshes(n) ==
    {E \in SUBSET CellPairs(n) :
        \A f \in Permutations(0 .. (n - 1)) : MeshCode(E) <= MeshCode(Renumbered(f, E))}

\* The startcells arguments enumerated: the sequences of at most MaxStart
\* cells, repeated cells included, in non-decreasing order (solve() reads
\* startcells in loops only, none of which keeps anything of the order but
\* the order in which handles are handed out).
StartSeqs(n) ==
    {sc \in UNION {[1 .. k -> 0 .. (n - 1)] : k \in 0 .. MaxStart} :
        \A i \in 1 .. (Len(sc) - 1) : sc[i] <= sc[i + 1]}

---------------------------------------------------------------------------
(* Local update solver. *)

\* Mutant of isClose: a cell is close to itself only.
isCloseMut(c1, c2) == c1 = c2

isClose(c1, c2) == TRUE

computeFromLine(cell, from) == 2

computeFromTri(cell, n0, n1) == 1

Min2(a, b) == IF a < b THEN a ELSE b

RECURSIVE MinOf(_, _)
MinOf(val, S) ==
    IF S = {} THEN val
    ELSE LET x == CHOOSE y \in S : TRUE IN MinOf(Min2(val, x), S \ {x})

\* The consecutive pairs (nbs[ii], nbs[(ii+1) % num_nbs]) of a neighbour list.
ConsecutivePairs(nbs) ==
    {<<nbs[i], nbs[(i % Len(nbs)) + 1]>> : i \in 1 .. Len(nbs)}

\* The pairs for which computeValue calls computeFromTri.
TriPairs(cell) ==
    {p \in ConsecutivePairs(cell_neighbours_[cell]) :
        p[1] \in accepted_front_ /\ p[2] \in accepted_front_}

\* val after the first loop of computeValue.
TriValue(cell) ==
    MinOf(inf, {computeFromTri(cell, p[1], p[2]) : p \in TriPairs(cell)})

\* The neighbours for which the fallback loop calls computeFromLine.
LineFroms(cell) ==
    IF TriValue(cell) = inf
    THEN {n \in Range(cell_neighbours_[cell]) : n \in accepted_front_}
    ELSE {}

computeValue(cell) ==
    LET val == TriValue(cell)
    IN  IF val = inf
        THEN MinOf(val, {computeFromLine(cell, n) : n \in LineFroms(cell)})
        ELSE val

\* All assert() conditions evaluated during computeValue(cell) are true.
computeValueAsserts(cell) ==
    /\ \A p \in TriPairs(cell) :
          ~is_accepted_[cell] /\ is_accepted_[p[1]] /\ is_accepted_[p[2]]
    /\ \A n \in LineFroms(cell) : ~is_accepted_[cell] /\ is_accepted_[n]
    /\ computeValue(cell) # inf

---------------------------------------------------------------------------
(* Considered queue: a heap of (value, cell) pairs with handles. *)

\* The comparator of the heap: a comes out before b.
Before(a, b) ==
    \/ a[1] < b[1]
    \/ /\ a[1] = b[1]
       /\ IF tiebreak = "low" THEN a[2] <= b[2] ELSE a[2] >= b[2]

\* Mutant of TopHandle: the comparator is reversed, top() is the last entry.
TopHandleMut(heap) ==
    CHOOSE h \in DOMAIN heap :
        \A k \in DOMAIN heap :
            /\ Before(heap[k], heap[h])
            /\ (heap[k] = heap[h] => h <= k)

\* The handle of the entry top() returns.
TopHandle(heap) ==
    CHOOSE h \in DOMAIN heap :
        \A k \in DOMAIN heap :
            /\ Before(heap[h], heap[k])
            /\ (heap[k] = heap[h] => h <= k)

topConsidered == considered_[TopHandle(considered_)]

\* The handle push() hands out: the first one not in use.
NewHandle(heap) ==
    CHOOSE h \in 0 .. Cardinality(DOMAIN heap) :
        h \notin DOMAIN heap /\ \A k \in 0 .. (h - 1) : k \in DOMAIN heap

\* The queue members as one value q, so that loops can thread them.
Queue == [considered |-> considered_, handles |-> considered_handles_,
          flags |-> is_considered_, ok |-> ~assert_failed]

\* Mutant of pushConsidered: is_considered_[vc.second] = true is missing.
pushConsideredMut(q, vc) ==
    LET h == NewHandle(q.considered)
    IN  [considered |-> [k \in DOMAIN q.considered \cup {h} |->
                            IF k = h THEN vc ELSE q.considered[k]],
         handles    |-> [c \in DOMAIN q.handles \cup {vc[2]} |->
                            IF c = vc[2] THEN h ELSE q.handles[c]],
         flags      |-> q.flags,
         ok         |-> q.ok]

pushConsidered(q, vc) ==
    LET h == NewHandle(q.considered)
    IN  [considered |-> [k \in DOMAIN q.considered \cup {h} |->
                            IF k = h THEN vc ELSE q.considered[k]],
         handles    |-> [c \in DOMAIN q.handles \cup {vc[2]} |->
                            IF c = vc[2] THEN h ELSE q.handles[c]],
         flags      |-> [q.flags EXCEPT ![vc[2]] = TRUE],
         ok         |-> q.ok]

\* Mutant of popConsidered: the call of considered_.pop() is missing.
popConsideredMut(q) ==
    LET h == TopHandle(q.considered)
        c == q.considered[h][2]
    IN  [considered |-> q.considered,
         handles    |-> [d \in DOMAIN q.handles \ {c} |-> q.handles[d]],
         flags      |-> [q.flags EXCEPT ![c] = FALSE],
         ok         |-> q.ok]

\* Mutant of popConsidered: is_considered_[...] = false is missing.
popConsideredKeepsFlagMut(q) ==
    LET h == TopHandle(q.considered)
        c == q.considered[h][2]
    IN  [considered |-> [k \in DOMAIN q.considered \ {h} |-> q.considered[k]],
         handles    |-> [d \in DOMAIN q.handles \ {c} |-> q.handles[d]],
         flags      |-> q.flags,
         ok         |-> q.ok]

\* Mutant of popConsidered: considered_handles_.erase(...) is missing.
popConsideredKeepsHandleMut(q) ==
    LET h == TopHandle(q.considered)
        c == q.considered[h][2]
    IN  [considered |-> [k \in DOMAIN q.considered \ {h} |-> q.considered[k]],
         handles    |-> q.handles,
         flags      |-> [q.flags EXCEPT ![c] = FALSE],
         ok         |-> q.ok]

popConsidered(q) ==
    LET h == TopHandle(q.considered)
        c == q.considered[h][2]
    IN  [considered |-> [k \in DOMAIN q.considered \ {h} |-> q.considered[k]],
         handles    |-> [d \in DOMAIN q.handles \ {c} |-> q.handles[d]],
         flags      |-> [q.flags EXCEPT ![c] = FALSE],
         ok         |-> q.ok]

\* Mutant of increase: the new value is added to the entry's key.
increaseMut(heap, h, vc) == [heap EXCEPT ![h] = <<heap[h][1] + vc[1], vc[2]>>]

\* Heap::increase(handle, vc): the entry at the handle takes the new pair.
increase(heap, h, vc) == [heap EXCEPT ![h] = vc]

---------------------------------------------------------------------------
(* solve(): one action per numbered step of the algorithm summary. *)

\* Mutant of IsFar: the test of is_accepted_ is missing.
IsFarMut(q, nb_cell) == ~q.flags[nb_cell]

\* The condition under which steps 3 and 6 move a neighbour to Considered.
IsFar(q, nb_cell) == ~is_accepted_[nb_cell] /\ ~q.flags[nb_cell]

\* The distinct cells of a sequence, in the order of their first occurrence.
RECURSIVE Distinct(_)
Distinct(s) ==
    IF s = <<>> THEN <<>>
    ELSE LET front == Distinct(SubSeq(s, 1, Len(s) - 1))
             last  == s[Len(s)]
         IN  IF last \in Range(front) THEN front ELSE Append(front, last)

\* Step 3, inner loop: the neighbours nbs of one start cell.
RECURSIVE MoveAdjacent(_, _)
MoveAdjacent(q, nbs) ==
    IF nbs = <<>> THEN q
    ELSE LET nb_cell == Head(nbs)
             p  == pushConsidered(q, <<computeValue(nb_cell), nb_cell>>)
             q1 == IF IsFar(q, nb_cell)
                   THEN [p EXCEPT !.ok = q.ok /\ computeValueAsserts(nb_cell)]
                   ELSE q
         IN  MoveAdjacent(q1, Tail(nbs))

\* Mutant of MoveAdjacentAll: only the first start cell's neighbours are
\* visited.
MoveAdjacentAllMut(q, scells) ==
    IF scells = <<>> THEN q
    ELSE MoveAdjacent(q, cell_neighbours_[Head(scells)])

\* Step 3, outer loop over startcells.
RECURSIVE MoveAdjacentAll(_, _)
MoveAdjacentAll(q, scells) ==
    IF scells = <<>> THEN q
    ELSE MoveAdjacentAll(MoveAdjacent(q, cell_neighbours_[Head(scells)]),
                         Tail(scells))

\* Step 6: the neighbours nbs of rcell.
RECURSIVE MoveFar(_, _)
MoveFar(q, nbs) ==
    IF nbs = <<>> THEN q
    ELSE LET nb_cell == Head(nbs)
             p  == pushConsidered(q, <<computeValue(nb_cell), nb_cell>>)
             q1 == IF IsFar(q, nb_cell)
                   THEN [p EXCEPT !.ok = /\ q.ok
                                         /\ solution[nb_cell] = inf
                                         /\ computeValueAsserts(nb_cell)]
                   ELSE q
         IN  MoveFar(q1, Tail(nbs))

\* Mutant of on_front: the test asks for all neighbours to be unaccepted.
on_frontMut(cell, accepted) ==
    \A nb \in Range(cell_neighbours_[cell]) : ~accepted[nb]

\* Step 5, inner loop: cell has a neighbour that is not accepted.
on_front(cell, accepted) ==
    \E nb \in Range(cell_neighbours_[cell]) : ~accepted[nb]

\* Mutant of UpdateFront: r is not inserted.
UpdateFrontMut(front, r, accepted) ==
    {cell \in front : on_front(cell, accepted)}

\* Mutant of UpdateFront: r is inserted, no member is erased.
UpdateFrontNoEraseMut(front, r, accepted) == front \cup {r}

\* Mutant of UpdateFront: r is inserted after the pass over the members.
UpdateFrontKeepsRMut(front, r, accepted) ==
    {cell \in front : on_front(cell, accepted)} \cup {r}

\* Step 5: insert r, then erase every member that is not on the front.
UpdateFront(front, r, accepted) ==
    {cell \in front \cup {r} : on_front(cell, accepted)}

\* Mutant of Smaller: the comparison is reversed.
SmallerMut(value, key) == value > key

\* Step 7, the test guarding the update of a queued entry.
Smaller(value, key) == value < key

\* Step 7: the entries whose visit updates the entry at handle h.
Updaters(heap, handles, h) ==
    {k \in DOMAIN heap :
        /\ isClose(rcell, heap[k][2])
        /\ heap[k][2] \in DOMAIN handles
        /\ handles[heap[k][2]] = h
        /\ Smaller(computeValue(heap[k][2]), heap[k][1])}

\* Step 7: the heap after the loop over all of its entries.  computeValue
\* reads only the front, which the loop leaves alone, so the order in which
\* the heap is traversed does not change the result.
Recompute(heap, handles) ==
    [h \in DOMAIN heap |->
        LET ups == Updaters(heap, handles, h)
        IN  IF ups = {} THEN heap[h]
            ELSE LET k == CHOOSE x \in ups : TRUE
                     ccell == heap[k][2]
                 IN  increase(heap, h, <<computeValue(ccell), ccell>>)[h]]

\* Vectors a caller may pass as the output argument besides the one it has.
JunkOutput == [i \in 0 .. grid_.number_of_cells |-> 7]

\* Mutant of ResetOutput: solution.clear() is missing.
ResetOutputMut(out) == resize(out, grid_.number_of_cells, inf)

\* Mutant of ResetOutput: the entries present are overwritten with inf, the
\* vector is not resized.
ResetOutputFillMut(out) == [i \in DOMAIN out |-> inf]

\* solution.clear(); solution.resize(num_cells, inf);
ResetOutput(out) == resize(clear(out), grid_.number_of_cells, inf)

\* Mutant of ResetFlags: clear() is missing, resize keeps the old elements.
ResetFlagsMut(flags) == resize(flags, grid_.number_of_cells, FALSE)

\* Step 1 for is_accepted_ and is_considered_: clear, then resize with false.
ResetFlags(flags) == resize(clear(flags), grid_.number_of_cells, FALSE)

\* solve(metric, startcells, solution) is entered with startcells sc and the
\* output vector holding out, and runs step
\* 1. Put all cells in Far. U_i = inf.
Step1(sc, out) ==
    /\ pc \in {"idle", "done"}
    /\ memo = <<>>
    /\ startcells' = sc
    /\ solution' = ResetOutput(out)
    /\ is_accepted_' = ResetFlags(is_accepted_)
    /\ accepted_front_' = {}
    /\ considered_' = <<>>
    /\ considered_handles_' = <<>>
    /\ is_considered_' = ResetFlags(is_considered_)
    /\ pc' = "seed"
    /\ rcell' = -1
    /\ order' = <<>>
    /\ iters' = 0
    /\ decreased' = {}
    /\ memo' = IF pc = "done" /\ sc = startcells THEN <<solution>> ELSE <<>>
    /\ writes' = [c \in 0 .. (grid_.number_of_cells - 1) |-> 0]
    /\ UNCHANGED <<other, overlapped, grid_, cell_neighbours_, tiebreak,
                   assert_failed, rft>>

\* A call of solve() on the instance, the first or a later one.
Call ==
    \E sc \in StartSeqs(grid_.number_of_cells) :
        \E out \in {solution, JunkOutput} : Step1(sc, out)

\* The indices at which cell occurs in the list scells.
Occurrences(scells, cell) ==
    Cardinality({ii \in DOMAIN scells : scells[ii] = cell})

\* 2. Move the startcells to Accepted. U_i = q(x_i)
Step2 ==
    /\ pc = "seed"
    /\ is_accepted_' = [c \in DOMAIN is_accepted_ |->
                           IF c \in Range(startcells) THEN TRUE ELSE is_accepted_[c]]
    /\ solution' = [c \in DOMAIN solution |->
                       IF c \in Range(startcells) THEN 0 ELSE solution[c]]
    /\ accepted_front_' = accepted_front_ \cup Range(startcells)
    /\ order' = Distinct(startcells)
    /\ writes' = [c \in DOMAIN writes |-> writes[c] + Occurrences(startcells, c)]
    /\ pc' = "adjacent"
    /\ UNCHANGED <<other, overlapped, grid_, cell_neighbours_, tiebreak, startcells, considered_,
                   considered_handles_, is_considered_, rcell, assert_failed,
                   iters, decreased, memo, rft>>

\* 3. Move cells adjacent to startcells to Considered.
Step3 ==
    /\ pc = "adjacent"
    /\ LET q == MoveAdjacentAll(Queue, startcells)
       IN  /\ considered_' = q.considered
           /\ considered_handles_' = q.handles
           /\ is_considered_' = q.flags
           /\ assert_failed' = ~q.ok
    /\ pc' = "loop"
    /\ UNCHANGED <<other, overlapped, grid_, cell_neighbours_, tiebreak, startcells, solution,
                   is_accepted_, accepted_front_, rcell, order, iters,
                   decreased, memo, writes, rft>>

\* Mutant of LoopContinues: the loop runs while AcceptedFront is not empty.
LoopContinuesMut == accepted_front_ # {}

\* while (!considered_.empty())
LoopContinues == DOMAIN considered_ # {}

\* Mutant of Accept: the flags are overwritten, only cell is left flagged.
AcceptMut(accepted, cell) == [c \in DOMAIN accepted |-> c = cell]

\* is_accepted_[rcell] = true;
Accept(accepted, cell) == [accepted EXCEPT ![cell] = TRUE]

\* 4. Find the Considered cell with the smallest value: r.
\* 5. Move cell r to Accepted. Update AcceptedFront.
Step45 ==
    /\ pc = "loop"
    /\ LoopContinues
    /\ IF DOMAIN considered_ = {}
       THEN \* top() and pop() of an empty heap: undefined behaviour
            /\ pc' = "undefined"
            /\ UNCHANGED <<rcell, is_accepted_, solution, considered_,
                           considered_handles_, is_considered_,
                           accepted_front_, order, iters, writes>>
       ELSE /\ LET r == topConsidered
                   q == popConsidered(Queue)
                   accepted == Accept(is_accepted_, r[2])
               IN  /\ rcell' = r[2]
                   /\ is_accepted_' = accepted
                   /\ solution' = [solution EXCEPT ![r[2]] = r[1]]
                   /\ considered_' = q.considered
                   /\ considered_handles_' = q.handles
                   /\ is_considered_' = q.flags
                   /\ accepted_front_' =
                         UpdateFront(accepted_front_, r[2], accepted)
                   /\ order' = Append(order, r[2])
                   /\ writes' = [writes EXCEPT ![r[2]] = @ + 1]
            /\ iters' = iters + 1
            /\ pc' = "far"
    /\ UNCHANGED <<other, overlapped, grid_, cell_neighbours_, tiebreak,
                   startcells, assert_failed, decreased, memo, rft>>

\* 6. Move cells adjacent to r from Far to Considered.
Step6 ==
    /\ pc = "far"
    /\ LET q == MoveFar(Queue, cell_neighbours_[rcell])
       IN  /\ considered_' = q.considered
           /\ considered_handles_' = q.handles
           /\ is_considered_' = q.flags
           /\ assert_failed' = ~q.ok
    /\ pc' = "recompute"
    /\ UNCHANGED <<other, overlapped, grid_, cell_neighbours_, tiebreak, startcells, solution,
                   is_accepted_, accepted_front_, rcell, order, iters,
                   decreased, memo, writes, rft>>

\* 7. Recompute the value for all Considered cells close to r.
\* 8. If Considered is not empty, go to step 4.
Step7 ==
    /\ pc = "recompute"
    /\ considered_' = Recompute(considered_, considered_handles_)
    /\ decreased' = {considered_[h][2] : h \in
                        {k \in DOMAIN considered_ : considered_'[k] # considered_[k]}}
    /\ assert_failed' =
          (assert_failed \/
             \E h \in DOMAIN considered_ :
                /\ isClose(rcell, considered_[h][2])
                /\ ~computeValueAsserts(considered_[h][2]))
    /\ pc' = "loop"
    /\ UNCHANGED <<other, overlapped, grid_, cell_neighbours_, tiebreak, startcells, solution,
                   is_accepted_, accepted_front_, considered_handles_,
                   is_considered_, rcell, order, iters, memo, writes, rft>>

\* The while loop finds Considered empty and solve() returns.
Return ==
    /\ pc = "loop"
    /\ ~LoopContinues
    /\ pc' = "done"
    /\ UNCHANGED <<other, overlapped, grid_, cell_neighbours_, tiebreak, startcells, solution,
                   is_accepted_, accepted_front_, considered_,
                   considered_handles_, is_considered_, rcell, assert_failed,
                   order, iters, decreased, memo, writes, rft>>

\* No call of EclipseWriteRFTHandler::writeTimeStep exists.
NoHandler == [pc |-> "none"]

\* No second invocation exists.
NoInvocation == [pc |-> "none"]

\* The instance after construction, before any solve(): the members are empty.
Constructed ==
    /\ tiebreak \in {"low", "high"}
    /\ startcells = <<>>
    /\ solution = <<>>
    /\ is_accepted_ = <<>>
    /\ accepted_front_ = {}
    /\ considered_ = <<>>
    /\ considered_handles_ = <<>>
    /\ is_considered_ = <<>>
    /\ pc = "idle"
    /\ rcell = -1
    /\ assert_failed = FALSE
    /\ order = <<>>
    /\ iters = 0
    /\ decreased = {}
    /\ memo = <<>>
    /\ writes = <<>>
    /\ rft = NoHandler
    /\ other = NoInvocation
    /\ overlapped = FALSE

Init ==
    /\ grid_ = [dimensions |-> 2, number_of_cells |-> NumCells]
    /\ \E E \in Meshes(NumCells) :
          cell_neighbours_ = vertexNeighbours(NumCells, E)
    /\ Constructed

Next ==
    \/ Call
    \/ Step2
    \/ Step3
    \/ Step45
    \/ Step6
    \/ Step7
    \/ Return

Spec == Init /\ [][Next]_vars

---------------------------------------------------------------------------
(* The uniform grid of GridSide x GridSide cells of the test properties:  *)
(* cell (x, y) has index y * GridSide + x and its vertex neighbours are    *)
(* listed counter-clockwise, starting from the one to the east.            *)

GridSide == 5

CounterClockwise ==
    <<<<1, 0>>, <<1, 1>>, <<0, 1>>, <<-1, 1>>, <<-1, 0>>, <<-1, -1>>, <<0, -1>>, <<1, -1>>>>

InGrid(x, y) == x \in 0 .. (GridSide - 1) /\ y \in 0 .. (GridSide - 1)

RECURSIVE GridRing(_, _, _)
GridRing(x, y, k) ==
    IF k > Len(CounterClockwise) THEN <<>>
    ELSE LET nx == x + CounterClockwise[k][1]
             ny == y + CounterClockwise[k][2]
         IN  (IF InGrid(nx, ny) THEN <<ny * GridSide + nx>> ELSE <<>>)
                 \o GridRing(x, y, k + 1)

GridNeighbours ==
    [c \in 0 .. (GridSide * GridSide - 1) |->
        GridRing(c % GridSide, c \div GridSide, 1)]

\* The reflection of the grid that exchanges corner 0 with the opposite corner
\* (the mirror in the anti-diagonal): (x, y) -> (GridSide-1-y, GridSide-1-x).
reflect(c) ==
    (GridSide - 1 - (c % GridSide)) * GridSide + (GridSide - 1 - (c \div GridSide))

\* The reflection that exchanges the two other corners (the mirror in the
\* main diagonal): (x, y) -> (y, x).
transpose(c) == (c % GridSide) * GridSide + (c \div GridSide)

\* The seedings of the test properties: one corner, or two opposite corners.
CornerStarts ==
    LET last == GridSide * GridSide - 1
        east == GridSide - 1
        north == GridSide * (GridSide - 1)
    IN  {<<0>>, <<east>>, <<north>>, <<last>>, <<0, last>>, <<east, north>>}

CallGrid ==
    \E sc \in CornerStarts :
        \E out \in {solution, JunkOutput} : Step1(sc, out)

InitGrid ==
    /\ grid_ = [dimensions |-> 2, number_of_cells |-> GridSide * GridSide]
    /\ cell_neighbours_ = GridNeighbours
    /\ Constructed

NextGrid ==
    \/ CallGrid
    \/ Step2
    \/ Step3
    \/ Step45
    \/ Step6
    \/ Step7
    \/ Return

SpecGrid == InitGrid /\ [][NextGrid]_vars

---------------------------------------------------------------------------
(* Two solve() invocations on one instance.  The members is_accepted_,     *)
(* accepted_front_, considered_, considered_handles_ and is_considered_    *)
(* belong to the instance; the arguments and the position in solve()       *)
(* belong to the invocation.  The running invocation is the one whose      *)
(* arguments and locals are in startcells, solution, pc, rcell; the        *)
(* suspended one is kept in other.  A first call runs alone; then two      *)
(* callers repeat it with the same startcells, each with its own output    *)
(* vector: one after the other, or one of them between any two steps of    *)
(* the other.                                                              *)

\* The arguments, locals and history of the running invocation.
Locals ==
    [startcells |-> startcells, solution |-> solution, pc |-> pc,
     rcell |-> rcell, order |-> order, iters |-> iters,
     decreased |-> decreased, memo |-> memo, writes |-> writes]

\* The position is inside solve().
Inside(p) == p \in {"seed", "adjacent", "loop", "far", "recompute"}

\* A second caller appears after the first call has returned; it holds the
\* same startcells and its own output vector.
Spawn ==
    /\ pc = "done"
    /\ memo = <<>>
    /\ other = NoInvocation
    /\ other' = Locals
    /\ UNCHANGED <<grid_, cell_neighbours_, tiebreak, startcells, solution,
                   is_accepted_, accepted_front_, considered_,
                   considered_handles_, is_considered_, pc, rcell,
                   assert_failed, order, iters, decreased, memo, writes, overlapped,
                   rft>>

\* The scheduler suspends the running invocation and resumes the other one.
\* The members of the instance stay as they are.  An invocation that started
\* while the other one was suspended inside solve() runs until it returns.
Switch ==
    /\ other # NoInvocation
    /\ ~(Inside(pc) /\ Inside(other.pc))
    /\ other' = Locals
    /\ startcells' = other.startcells
    /\ solution' = other.solution
    /\ pc' = other.pc
    /\ rcell' = other.rcell
    /\ order' = other.order
    /\ iters' = other.iters
    /\ decreased' = other.decreased
    /\ memo' = other.memo
    /\ writes' = other.writes
    /\ overlapped' = (overlapped \/ Inside(pc))
    /\ UNCHANGED <<grid_, cell_neighbours_, tiebreak, is_accepted_,
                   accepted_front_, considered_, considered_handles_,
                   is_considered_, assert_failed, rft>>

\* The first call, and each caller's repetition of it.
CallShared ==
    \E sc \in (IF pc = "idle" THEN StartSeqs(grid_.number_of_cells)
                              ELSE {startcells}) :
        Step1(sc, solution)

NextShared ==
    \/ CallShared
    \/ Spawn
    \/ Switch
    \/ Step2
    \/ Step3
    \/ Step45
    \/ Step6
    \/ Step7
    \/ Return

SpecShared == Init /\ [][NextShared]_vars

---------------------------------------------------------------------------
(* Construction.  The constructor is handed a grid of any dimension; Init  *)
(* above is the state it leaves for a 2d grid.                             *)

\* The values of grid.dimensions the constructor is called with.
Dimensions == 1 .. 3

\* Mutant of RejectsGrid: only grids of fewer than 2 dimensions are rejected.
RejectsGridMut(grid) == grid.dimensions < 2

\* if (grid.dimensions != 2) OPM_THROW(std::logic_error, ...)
RejectsGrid(grid) == grid.dimensions # 2

\* The constructor is about to run on some grid: nothing is built yet.
InitNew ==
    /\ \E d \in Dimensions :
          grid_ = [dimensions |-> d, number_of_cells |-> NumCells]
    /\ cell_neighbours_ = <<>>
    /\ tiebreak \in {"low", "high"}
    /\ startcells = <<>>
    /\ solution = <<>>
    /\ is_accepted_ = <<>>
    /\ accepted_front_ = {}
    /\ considered_ = <<>>
    /\ considered_handles_ = <<>>
    /\ is_considered_ = <<>>
    /\ pc = "new"
    /\ rcell = -1
    /\ assert_failed = FALSE
    /\ order = <<>>
    /\ iters = 0
    /\ decreased = {}
    /\ memo = <<>>
    /\ writes = <<>>
    /\ rft = NoHandler
    /\ other = NoInvocation
    /\ overlapped = FALSE

\* AnisotropicEikonal2d(grid): throws std::logic_error and leaves no
\* instance, or builds the neighbour table and leaves an instance on which
\* solve() can be called.
Construct ==
    /\ pc = "new"
    /\ IF RejectsGrid(grid_)
       THEN /\ pc' = "threw"
            /\ UNCHANGED cell_neighbours_
       ELSE /\ \E E \in Meshes(grid_.number_of_cells) :
                  cell_neighbours_' = vertexNeighbours(grid_.number_of_cells, E)
            /\ pc' = "idle"
    /\ UNCHANGED <<other, overlapped, grid_, tiebreak, startcells, solution,
                   is_accepted_, accepted_front_, considered_,
                   considered_handles_, is_considered_, rcell, assert_failed,
                   order, iters, decreased, memo, writes, rft>>

NextConstruct ==
    \/ Construct
    \/ Call
    \/ Step2
    \/ Step3
    \/ Step45
    \/ Step6
    \/ Step7
    \/ Return

SpecConstruct == InitNew /\ [][NextConstruct]_vars

---------------------------------------------------------------------------
(* The Considered queue helpers on their own: pushConsidered and           *)
(* popConsidered applied in any order to the queue of an instance after    *)
(* step 1, for any value and any cell.                                     *)

\* Largest number of entries the queue is filled to.
MaxQueue == 3

\* The values a queue entry is pushed with.
PushValues == {computeFromTri(0, 0, 0), computeFromLine(0, 0)}

InitQueue ==
    /\ grid_ = [dimensions |-> 2, number_of_cells |-> NumCells]
    /\ cell_neighbours_ = vertexNeighbours(NumCells, {})
    /\ tiebreak \in {"low", "high"}
    /\ startcells = <<>>
    /\ solution = [c \in Cells |-> inf]
    /\ is_accepted_ = [c \in Cells |-> FALSE]
    /\ accepted_front_ = {}
    /\ considered_ = <<>>
    /\ considered_handles_ = <<>>
    /\ is_considered_ = [c \in Cells |-> FALSE]
    /\ pc = "queue"
    /\ rcell = -1
    /\ assert_failed = FALSE
    /\ order = <<>>
    /\ iters = 0
    /\ decreased = {}
    /\ memo = <<>>
    /\ writes = <<>>
    /\ rft = NoHandler
    /\ other = NoInvocation
    /\ overlapped = FALSE

\* pushConsidered(vc) for any pair vc.
Push ==
    /\ pc = "queue"
    /\ Cardinality(DOMAIN considered_) < MaxQueue
    /\ \E value \in PushValues : \E cell \in Cells :
          LET q == pushConsidered(Queue, <<value, cell>>)
          IN  /\ considered_' = q.considered
              /\ considered_handles_' = q.handles
              /\ is_considered_' = q.flags
              /\ assert_failed' = ~q.ok
    /\ UNCHANGED <<other, overlapped, grid_, cell_neighbours_, tiebreak,
                   startcells, solution, is_accepted_, accepted_front_, pc,
                   rcell, order, iters, decreased, memo, writes, rft>>

\* popConsidered() on a queue that is not empty.
Pop ==
    /\ pc = "queue"
    /\ DOMAIN considered_ # {}
    /\ LET q == popConsidered(Queue)
       IN  /\ considered_' = q.considered
           /\ considered_handles_' = q.handles
           /\ is_considered_' = q.flags
    /\ UNCHANGED <<other, overlapped, grid_, cell_neighbours_, tiebreak,
                   startcells, solution, is_accepted_, accepted_front_, pc,
                   rcell, assert_failed, order, iters, decreased, memo, writes,
                   rft>>

NextQueue ==
    \/ Push
    \/ Pop

SpecQueue == InitQueue /\ [][NextQueue]_vars

---------------------------------------------------------------------------
(* computeValue on its own: cell 0 is not Accepted, its neighbour list is  *)
(* any list of distinct cells out of 1 .. MaxNbs in any order, and any of  *)
(* these cells are Accepted and in AcceptedFront.                          *)

\* Largest length of the neighbour list of the evaluated cell.
MaxNbs == 4

\* The lists of distinct cells out of S, in every order.
RECURSIVE DistinctLists(_)
DistinctLists(S) ==
    {<<>>} \cup UNION {{<<c>> \o l : l \in DistinctLists(S \ {c})} : c \in S}

InitValue ==
    /\ grid_ = [dimensions |-> 2, number_of_cells |-> MaxNbs + 1]
    /\ \E nbs \in DistinctLists(1 .. MaxNbs) :
          cell_neighbours_ = [c \in 0 .. MaxNbs |->
                                 IF c = 0 THEN nbs
                                 ELSE IF c \in Range(nbs) THEN <<0>> ELSE <<>>]
    /\ \E front \in SUBSET (1 .. MaxNbs) :
          /\ accepted_front_ = front
          /\ is_accepted_ = [c \in 0 .. MaxNbs |-> c \in front]
          /\ solution = [c \in 0 .. MaxNbs |-> IF c \in front THEN 0 ELSE inf]
    /\ tiebreak \in {"low", "high"}
    /\ startcells = <<>>
    /\ considered_ = <<>>
    /\ considered_handles_ = <<>>
    /\ is_considered_ = [c \in 0 .. MaxNbs |-> FALSE]
    /\ pc = "value"
    /\ rcell = -1
    /\ assert_failed = FALSE
    /\ order = <<>>
    /\ iters = 0
    /\ decreased = {}
    /\ memo = <<>>
    /\ writes = <<>>
    /\ rft = NoHandler
    /\ other = NoInvocation
    /\ overlapped = FALSE

\* pushConsidered(std::make_pair(computeValue(0, metric), 0)), as steps 3
\* and 6 do it for a neighbour that is neither Accepted nor Considered.
EvaluateValue ==
    /\ pc = "value"
    /\ LET q == pushConsidered(Queue, <<computeValue(0), 0>>)
       IN  /\ considered_' = q.considered
           /\ considered_handles_' = q.handles
           /\ is_considered_' = q.flags
    /\ assert_failed' = ~computeValueAsserts(0)
    /\ pc' = "valued"
    /\ UNCHANGED <<other, overlapped, grid_, cell_neighbours_, tiebreak,
                   startcells, solution, is_accepted_, accepted_front_,
                   rcell, order, iters, decreased, memo, writes, rft>>

NextValue == EvaluateValue

SpecValue == InitValue /\ [][NextValue]_vars

---------------------------------------------------------------------------
(* Notions the properties are stated in. *)

Accepted == {c \in Cells : is_accepted_[c]}

\* A solve() call is running or has returned, and step 2 has been done.
Seeded == pc \in {"adjacent", "loop", "far", "recompute", "done"}

HasEntry(heap, c) == \E h \in DOMAIN heap : heap[h][2] = c

KeyOf(heap, c) == heap[CHOOSE h \in DOMAIN heap : heap[h][2] = c][1]

\* The cells reachable from the cells of S by following neighbour lists.
RECURSIVE Reachable(_)
Reachable(S) ==
    LET T == S \cup UNION {Range(cell_neighbours_[c]) : c \in S}
    IN  IF T = S THEN S ELSE Reachable(T)

\* The cells at most k neighbour steps away from a cell of S.
RECURSIVE Ball(_, _)
Ball(S, k) ==
    IF k = 0 THEN S
    ELSE LET B == Ball(S, k - 1)
         IN  B \cup UNION {Range(cell_neighbours_[c]) : c \in B}

\* The neighbour-graph distance of the cell c from the set S it is reachable from.
GraphDistance(S, c) ==
    CHOOSE k \in 0 .. grid_.number_of_cells :
        c \in Ball(S, k) /\ (k = 0 \/ c \notin Ball(S, k - 1))

---------------------------------------------------------------------------
(* Properties. *)

\* C1: when solve() returns, a cell accepted before another one (seeded, or
\* popped earlier) holds a value that is not larger than the other's.
AcceptanceOrderMonotone ==
    pc = "done" =>
        \A i, j \in DOMAIN order :
            i < j => solution[order[i]] <= solution[order[j]]

\* C2: from seeding on, every start cell holds 0, is not flagged Considered
\* and has no entry in the Considered queue; so it holds 0 at return.
StartCellsStayZero ==
    Seeded =>
        \A s \in Range(startcells) :
            /\ solution[s] = 0
            /\ is_accepted_[s]
            /\ ~is_considered_[s]
            /\ ~HasEntry(considered_, s)

\* C2 witness: solve() has returned after at least one iteration of the main
\* loop, seeded with two distinct start cells that are neighbours.
StartCellsAdjacentDone ==
    /\ pc = "done"
    /\ iters > 0
    /\ Len(startcells) = 2
    /\ startcells[1] # startcells[2]
    /\ startcells[2] \in Range(cell_neighbours_[startcells[1]])

\* C3: at return the Accepted cells are exactly the cells reachable from the
\* start cells, and each of them holds a value in [0, 1e100).
AcceptedIsReachable ==
    pc = "done" =>
        /\ Accepted = Reachable(Range(startcells))
        /\ \A c \in Accepted : 0 <= solution[c] /\ solution[c] < inf

\* C3 witness: solve() has returned having accepted a cell that is not a start
\* cell, which has a neighbour that is not a start cell either, and having
\* left some cell unaccepted.
ReachedBeyondSeedsDone ==
    /\ pc = "done"
    /\ Accepted # Cells
    /\ \E c \in Accepted \ Range(startcells) :
          \E d \in Range(cell_neighbours_[c]) :
              d \notin Range(startcells) /\ d \in Accepted

\* C4: a cell with no neighbour path from a start cell is never Accepted or
\* Considered, holds 1e100 from the reset on, and no assertion of solve()
\* fails on the way to its return.
UnreachableUntouched ==
    pc # "idle" =>
        /\ \A c \in Cells \ Reachable(Range(startcells)) :
              /\ ~is_accepted_[c]
              /\ ~is_considered_[c]
              /\ ~HasEntry(considered_, c)
              /\ solution[c] = inf
        /\ ~assert_failed

\* C4 witness: solve() has returned after at least one iteration on a mesh
\* with a cell that no start cell reaches.
DisconnectedDone ==
    /\ pc = "done"
    /\ iters > 0
    /\ Cells \ Reachable(Range(startcells)) # {}

\* C4, second case reached: solve() has returned from a call without start cells.
NoStartCellsDone ==
    /\ pc = "done"
    /\ startcells = <<>>
    /\ \A c \in Cells : solution[c] = inf

\* C5: the cells accepted in a call are pairwise distinct, so the main loop
\* has run at most numCells - (number of distinct start cells) iterations, and
\* when it has run that many the Considered queue is empty.
IterationsBounded ==
    Seeded =>
        /\ Len(order) = Cardinality(Range(order))
        /\ iters + Cardinality(Range(startcells)) <= grid_.number_of_cells
        /\ (pc = "loop" /\ iters + Cardinality(Range(startcells)) = grid_.number_of_cells
               => DOMAIN considered_ = {})

\* C5 witness: solve() has returned after as many iterations as there are
\* cells that are not start cells, and at least two.
AllCellsAcceptedDone ==
    /\ pc = "done"
    /\ iters >= 2
    /\ iters + Cardinality(Range(startcells)) = grid_.number_of_cells

\* C6: a call with the startcells of the call before it returns the output
\* that call returned, whatever the output vector held when it was passed.
Idempotent ==
    (pc = "done" /\ memo # <<>>) => solution = memo[1]

\* C6 witness: the second of two calls with the same start cells has returned
\* after at least one iteration of the main loop.
SecondCallDone ==
    /\ pc = "done"
    /\ memo # <<>>
    /\ iters > 0

\* C7: in every step, a cell that is queued before and after it keeps its key,
\* unless the step is step 7 and the key gets strictly smaller.
KeysNeverIncrease ==
    [][\A c \in Cells :
          (HasEntry(considered_, c) /\ HasEntry(considered_', c)) =>
              \/ KeyOf(considered_', c) = KeyOf(considered_, c)
              \/ /\ pc = "recompute"
                 /\ KeyOf(considered_', c) < KeyOf(considered_, c)]_vars

\* C7 witness: step 7 has just lowered the key of a queued cell.
KeyDecreased ==
    /\ pc = "loop"
    /\ \E c \in decreased : HasEntry(considered_, c) /\ KeyOf(considered_, c) = 1

\* C8: on the grid seeded at one corner, a cell nearer to the corner in the
\* neighbour graph holds a strictly smaller value at return.
IncreasingWithDistance ==
    (pc = "done" /\ Len(startcells) = 1) =>
        \A a, b \in Cells :
            GraphDistance(Range(startcells), a) < GraphDistance(Range(startcells), b)
                => solution[a] < solution[b]

\* C9: on the grid seeded at two opposite corners, the output at return is
\* the same at a cell and at its mirror image under the reflection that
\* exchanges the two corners.
ReflectionSymmetric ==
    (pc = "done" /\ Len(startcells) = 2) =>
        \A c \in Cells :
            solution[c] = solution[IF startcells[1] = 0 THEN reflect(c) ELSE transpose(c)]

\* C10: after seeding, after each iteration of the main loop and at return,
\* AcceptedFront is the set of Accepted cells with a neighbour not Accepted.
FrontIsBoundary ==
    pc \in {"loop", "done"} =>
        accepted_front_ = {c \in Accepted : on_front(c, is_accepted_)}

\* The neighbours of cell that are in AcceptedFront.
FrontNeighbours(cell) ==
    {n \in Range(cell_neighbours_[cell]) : n \in accepted_front_}

\* computeValue(cell) is about to be called and will find a front neighbour.
FindsFront(cell) == FrontNeighbours(cell) # {} /\ computeValue(cell) # inf

\* C11: every call of computeValue, in step 3 for the unaccepted neighbours
\* of the start cells, in step 6 for the Far neighbours of r and in step 7
\* for the queued cells, finds a neighbour in AcceptedFront; no queue entry
\* has the key inf and no accepted cell has the value inf.
ComputeValueFindsFront ==
    /\ pc = "adjacent" =>
          \A s \in Range(startcells) :
             \A nb \in Range(cell_neighbours_[s]) :
                ~is_accepted_[nb] => FindsFront(nb)
    /\ pc = "far" =>
          \A nb \in Range(cell_neighbours_[rcell]) :
             (~is_accepted_[nb] /\ ~is_considered_[nb]) => FindsFront(nb)
    /\ pc = "recompute" =>
          \A h \in DOMAIN considered_ : FindsFront(considered_[h][2])
    /\ Seeded =>
          /\ \A h \in DOMAIN considered_ : considered_[h][1] # inf
          /\ \A c \in Accepted : solution[c] # inf

\* C11 witness: step 7 is about to re-evaluate a queued cell after an
\* accepted cell has left AcceptedFront.
RecomputeAfterPrune ==
    /\ pc = "recompute"
    /\ DOMAIN considered_ # {}
    /\ Accepted \ accepted_front_ # {}

\* A repeated call has returned: its output and the output of the call
\* that ran alone.
Repeated(inv) == inv.pc = "done" /\ inv.memo # <<>>

SameAsAlone(inv) == inv.solution = inv.memo[1]

\* C12: when two solve() invocations on the same instance interleave their
\* steps, each returns the output it returns when run alone.
InterleavedAsAlone ==
    /\ Repeated(Locals) => SameAsAlone(Locals)
    /\ (other # NoInvocation /\ Repeated(other)) => SameAsAlone(other)

\* C12, amended: the per-solve state is held by the instance; when the
\* invocations on one instance are serialized (none is suspended inside
\* solve() while the other runs), each returns the output it returns alone.
SerializedAsAlone == ~overlapped => InterleavedAsAlone

\* C12 witness: both callers have repeated the call, one after the other,
\* and got the output of the first call, which accepted cells beyond the
\* start cells.
BothSerializedDone ==
    /\ ~overlapped
    /\ other # NoInvocation
    /\ Repeated(Locals) /\ Repeated(other)
    /\ SameAsAlone(Locals) /\ SameAsAlone(other)
    /\ \E c \in Cells : solution[c] \in {1, 2}

\* C13: for a grid with dimensions # 2 the constructor throws before the
\* neighbour table is built, no instance exists and no solve() runs; for a
\* grid with dimensions = 2 it does not throw and leaves the neighbour table
\* of all cells.
ConstructorChecksDimensions ==
    /\ grid_.dimensions # 2 =>
          /\ pc \in {"new", "threw"}
          /\ cell_neighbours_ = <<>>
          /\ solution = <<>> /\ is_accepted_ = <<>>
    /\ (grid_.dimensions = 2 /\ pc # "new") =>
          /\ pc # "threw"
          /\ DOMAIN cell_neighbours_ = Cells

\* C13 witness: the constructor has thrown on a grid of 3 dimensions.
ThrewLogicError == pc = "threw" /\ grid_.dimensions = 3

\* The state of cell c under the flags: Far, Considered or Accepted.
CellState(accepted, considered, c) ==
    IF considered[c] THEN "Considered"
    ELSE IF accepted[c] THEN "Accepted" ELSE "Far"

\* C14: in every step of a solve() call after seeding, a Far cell stays Far
\* or becomes Considered, a Considered cell stays Considered (its key the
\* same or strictly smaller) or becomes Accepted as the cell r popped in
\* that step, and an Accepted cell stays Accepted; no cell carries both
\* flags.
CellStatesAdvance ==
    [][(Seeded /\ pc' # "seed") =>
          \A c \in Cells :
             LET from == CellState(is_accepted_, is_considered_, c)
                 to   == CellState(is_accepted_', is_considered_', c)
             IN  /\ ~(is_accepted_'[c] /\ is_considered_'[c])
                 /\ from = "Far" => to \in {"Far", "Considered"}
                 /\ from = "Accepted" => to = "Accepted"
                 /\ from = "Considered" =>
                       \/ /\ to = "Considered"
                          /\ KeyOf(considered_', c) <= KeyOf(considered_, c)
                       \/ /\ to = "Accepted"
                          /\ pc = "loop"
                          /\ c = rcell'
                          /\ c = topConsidered[2]]_vars

\* C14 witness: a cell that was pushed in step 6 has been accepted, another
\* one had its key lowered and is still Considered, and a third one is Far.
AllTransitionsTaken ==
    /\ pc = "loop"
    /\ \E c \in Accepted : solution[c] # 0 /\ c \notin Range(startcells)
    /\ \E c \in decreased : is_considered_[c] /\ ~is_accepted_[c]
    /\ \E c \in Cells : ~is_accepted_[c] /\ ~is_considered_[c]

\* C15: in every step taken inside a solve() call, a cell whose Accepted
\* flag is true keeps it.
AcceptedMonotone ==
    [][Inside(pc) =>
          \A c \in DOMAIN is_accepted_ :
             is_accepted_[c] => is_accepted_'[c]]_vars

\* C15 witness: the call has returned after at least two iterations and
\* every cell accepted on the way, start cells included, is still flagged.
AcceptedKeptToReturn ==
    /\ pc = "done"
    /\ iters >= 2
    /\ Range(startcells) # {}
    /\ Range(order) = Accepted

\* The handles of the queue entries of cell c.
Entries(heap, c) == {h \in DOMAIN heap : heap[h][2] = c}

\* C16: at the start of every main-loop iteration and at return, for every
\* cell c, is_considered_[c] holds iff the queue has exactly one entry for c
\* iff considered_handles_ has a handle for c, and that handle is the one of
\* the entry; at every point of a call no cell has two entries, and after
\* the pop the cell r has neither a handle nor an entry.
QueueFlagsHandlesAgree ==
    /\ pc \in {"loop", "done"} =>
          \A c \in Cells :
             /\ is_considered_[c] <=> Cardinality(Entries(considered_, c)) = 1
             /\ is_considered_[c] <=> c \in DOMAIN considered_handles_
             /\ c \in DOMAIN considered_handles_ =>
                   Entries(considered_, c) = {considered_handles_[c]}
    /\ (Inside(pc) \/ pc = "done") =>
          \A c \in Cells : Cardinality(Entries(considered_, c)) <= 1
    /\ pc = "far" =>
          /\ rcell \notin DOMAIN considered_handles_
          /\ Entries(considered_, rcell) = {}

\* C16 witness: an iteration starts with two cells queued, after a pop and
\* after step 6 has pushed a cell.
TwoQueuedAfterPop ==
    /\ pc = "loop"
    /\ iters >= 1
    /\ Cardinality(DOMAIN considered_) >= 2
    /\ \E c \in Cells : is_considered_[c] /\ c \notin
          UNION {Range(cell_neighbours_[s]) : s \in Range(startcells)}

\* C17: a pushConsidered for a cell that has a queue entry fails and leaves
\* the queue and the handle map as they were: in every step that does not
\* pop, a cell with an entry keeps that one entry and its stored handle.
PushRejectsDuplicate ==
    [][\A c \in Cells :
          (Entries(considered_, c) # {} /\
           Cardinality(DOMAIN considered_') >= Cardinality(DOMAIN considered_))
          =>
          /\ Entries(considered_', c) = Entries(considered_, c)
          /\ c \in DOMAIN considered_handles_'
          /\ considered_handles_'[c] = considered_handles_[c]]_vars

\* C18: in every main-loop iteration the cell r that steps 4-5 accept has a
\* queue entry whose key is <= the key of every queue entry at that moment,
\* r is flagged Accepted and solution[r] becomes exactly that key.
AcceptsMinimum ==
    [][(pc = "loop" /\ pc' = "far") =>
          LET r == rcell'
          IN  /\ Entries(considered_, r) # {}
              /\ \A h \in DOMAIN considered_ :
                    KeyOf(considered_, r) <= considered_[h][1]
              /\ is_accepted_'[r]
              /\ solution'[r] = KeyOf(considered_, r)]_vars

\* C18 witness: r has just been accepted with the key 1.0 while an entry
\* with the larger key 2.0 stays queued.
AcceptedBelowQueued ==
    /\ pc = "far"
    /\ solution[rcell] = 1
    /\ \E h \in DOMAIN considered_ : considered_[h][1] > solution[rcell]

\* C19: topConsidered and popConsidered are never called on an empty queue:
\* no run of solve() reaches the undefined behaviour of top() and pop() on
\* an empty heap, and the cell every pop hands to step 6 is a cell of the
\* grid that was queued with a finite key.
NeverPopsEmpty ==
    /\ pc # "undefined"
    /\ pc = "far" => (rcell \in Cells /\ solution[rcell] \in PushValues)

\* C19 witness: the last entry has just been popped, the queue is empty and
\* the loop is about to test it.
QueueDrained ==
    /\ pc = "recompute"
    /\ iters >= 2
    /\ DOMAIN considered_ = {}

\* Cell c is Far: no flag is set and its output entry is inf.
Far(c) == ~is_accepted_[c] /\ ~is_considered_[c] /\ solution[c] = inf

\* C20: after step 1 of every call the output and both flag vectors have one
\* entry per cell, every output entry is inf, no flag is set and the queue,
\* the handle map and AcceptedFront are empty; after step 2 every start cell
\* is Accepted with value 0, every other cell is Far, and nothing is queued.
ResetBeforeSeeding ==
    /\ pc \in {"seed", "adjacent"} =>
          /\ DOMAIN solution = Cells
          /\ DOMAIN is_accepted_ = Cells
          /\ DOMAIN is_considered_ = Cells
          /\ DOMAIN considered_ = {}
          /\ DOMAIN considered_handles_ = {}
    /\ pc = "seed" =>
          /\ \A c \in Cells : Far(c)
          /\ accepted_front_ = {}
    /\ pc = "adjacent" =>
          \A c \in Cells :
             IF c \in Range(startcells)
             THEN is_accepted_[c] /\ ~is_considered_[c] /\ solution[c] = 0
             ELSE Far(c)

\* C20 witness: a call has been seeded on an instance whose previous call
\* (with the same start cells) had accepted cells beyond them.
SeededAfterEarlierCall ==
    /\ pc = "adjacent"
    /\ memo # <<>>
    /\ \E c \in Cells : memo[1][c] \in PushValues /\ Far(c)
    /\ Range(startcells) # {}

\* C21: after solve() has returned the output has exactly one entry per cell
\* of the grid, indexed 0 .. numCells-1.
OutputHasNumCells ==
    pc = "done" => (DOMAIN solution = Cells /\ Size(solution) = grid_.number_of_cells)

\* C21 witness: a call without start cells has returned; no cell was
\* reached and the output still has one entry, inf, per cell.
EmptySeedOutputSized ==
    /\ pc = "done"
    /\ startcells = <<>>
    /\ Size(solution) = NumCells
    /\ \A c \in Cells : solution[c] = inf

\* C22: for a cell that is not Accepted and has exactly one neighbour in
\* AcceptedFront, computeValue makes no call of computeFromTri and returns
\* the candidate of computeFromLine from that neighbour, whatever the length
\* of the cell's neighbour list.
SingleFrontNeighbourUsesLine ==
    Seeded =>
       \A cell \in Cells :
          (~is_accepted_[cell] /\ Cardinality(FrontNeighbours(cell)) = 1) =>
             /\ TriPairs(cell) = {}
             /\ \E from \in FrontNeighbours(cell) :
                   computeValue(cell) = computeFromLine(cell, from)

\* The position after i in the circular order of a list of n entries.
Succ(i, n) == (i % n) + 1

\* The positions i of nbs at which the neighbour and its successor in the
\* circular order are two neighbours that are both in AcceptedFront.
QualifyingPairs(nbs) ==
    {i \in 1 .. Len(nbs) :
        /\ nbs[i] # nbs[Succ(i, Len(nbs))]
        /\ nbs[i] \in accepted_front_
        /\ nbs[Succ(i, Len(nbs))] \in accepted_front_}

\* C23: the value computeValue returned for cell 0 is the minimum triangle
\* candidate iff two neighbours at consecutive positions of the circular
\* neighbour order, the pair (last, first) included, are both in
\* AcceptedFront; otherwise, front neighbours that are not consecutive make
\* no triangle candidate and the value is the minimum single-neighbour
\* candidate.
TriangleIffConsecutivePair ==
    (pc = "valued" /\ FrontNeighbours(0) # {}) =>
       LET nbs == cell_neighbours_[0]
           returned == KeyOf(considered_, 0)
           tris == {computeFromTri(0, nbs[i], nbs[Succ(i, Len(nbs))]) :
                       i \in QualifyingPairs(nbs)}
           lines == {computeFromLine(0, n) : n \in FrontNeighbours(0)}
       IN  IF QualifyingPairs(nbs) # {}
           THEN returned = MinOf(inf, tris) /\ TriPairs(0) # {}
           ELSE returned = MinOf(inf, lines) /\ TriPairs(0) = {}

\* The Accepted cells with at least one neighbour that is not Accepted.
Boundary ==
    {c \in Accepted : \E i \in DOMAIN cell_neighbours_[c] :
                         ~is_accepted_[cell_neighbours_[c][i]]}

\* C24: right after step 5 of every main-loop iteration, and until the next
\* acceptance, AcceptedFront is exactly the set of Accepted cells with a
\* neighbour that is not Accepted; r is in it iff it has such a neighbour.
FrontExactAfterStep5 ==
    (pc \in {"far", "recompute"} \/ (pc \in {"loop", "done"} /\ iters >= 1)) =>
       accepted_front_ = Boundary

\* C24 witness: step 5 has just run; r and another member were dropped in
\* the pass, and a cell accepted earlier is still on the front.
FrontPrunedWithR ==
    /\ pc = "far"
    /\ rcell \notin accepted_front_
    /\ accepted_front_ # {}
    /\ Cardinality(Accepted \ accepted_front_) >= 2

\* C25: in every step inside a solve() call, AcceptedFront stays a subset of
\* the Accepted cells, a cell that leaves it has all its neighbours Accepted
\* at that moment, and a cell that enters it is one that becomes Accepted in
\* that very step; a cell is accepted once, so one that left never re-enters.
FrontLeavesWhenSurrounded ==
    [][Inside(pc) =>
          /\ accepted_front_' \subseteq {c \in Cells : is_accepted_'[c]}
          /\ \A c \in accepted_front_ \ accepted_front_' :
                \A i \in DOMAIN cell_neighbours_[c] :
                   is_accepted_'[cell_neighbours_[c][i]]
          /\ \A c \in accepted_front_' \ accepted_front_ :
                ~is_accepted_[c] /\ is_accepted_'[c]]_vars

\* C25 witness: the call has returned with every cell Accepted: each cell
\* entered AcceptedFront once and has left it.
AllLeftFront ==
    /\ pc = "done"
    /\ iters >= 2
    /\ Accepted = Cells
    /\ accepted_front_ = {}

\* C26: step 7 leaves the queue with the same cells, every one of them is
\* close to r, and the key of each is the smaller one of its key before the
\* step and computeValue of the cell on the front as step 5 left it.
RecomputeTakesMin ==
    [][(pc = "recompute" /\ pc' = "loop") =>
          /\ DOMAIN considered_' = DOMAIN considered_
          /\ \A h \in DOMAIN considered_ :
                LET ccell == considered_[h][2]
                    new   == computeValue(ccell)
                    old   == considered_[h][1]
                IN  /\ isClose(rcell, ccell)
                    /\ considered_'[h][2] = ccell
                    /\ considered_'[h][1] = IF new < old THEN new ELSE old]_vars

\* C26 witness: step 7 has lowered the key of one queued cell and kept the
\* key of another one, which is not adjacent to r.
LoweredOneKeptOne ==
    /\ pc = "loop"
    /\ \E h \in DOMAIN considered_ : considered_[h][2] \in decreased
    /\ \E h \in DOMAIN considered_ :
          /\ considered_[h][2] \notin decreased
          /\ rcell \notin Range(cell_neighbours_[considered_[h][2]])

\* C27: every cell's solution entry is stored at most once between the reset
\* of step 1 and the return of the call.
WrittenAtMostOnce == \A c \in DOMAIN writes : writes[c] <= 1

\* C27 (amended): inside a call the entry of a cell is stored only by step 2,
\* once for each occurrence of the cell in startcells and always with 0, or
\* by step 5 when the cell is popped, once, and only for a cell that is not a
\* start cell; the value of an entry changes only with its first store.
WrittenAtSeedOrPop ==
    [][Inside(pc) =>
          \A c \in DOMAIN writes :
             /\ solution'[c] # solution[c] => writes[c] = 0
             /\ writes'[c] # writes[c] =>
                   \/ /\ pc = "seed"
                      /\ c \in Range(startcells)
                      /\ writes[c] = 0
                      /\ writes'[c] = Occurrences(startcells, c)
                      /\ solution'[c] = 0
                   \/ /\ pc = "loop"
                      /\ c = rcell'
                      /\ c \notin Range(startcells)
                      /\ writes[c] = 0
                      /\ writes'[c] = 1
                      /\ solution'[c] # inf]_vars

\* C27 witness: a call has returned in which a start cell listed twice was
\* stored twice and two other cells were stored once, at their pops.
StoredTwiceAtSeed ==
    /\ pc = "done"
    /\ \E c \in Cells : writes[c] = 2 /\ solution[c] = 0
    /\ Cardinality({c \in Cells : writes[c] = 1 /\ solution[c] \in {1, 2}}) >= 2

\* C28: from step 1 to the return of solve() every cell that is not Accepted
\* holds inf in the output, the queued cells included, whose tentative
\* values are in the queue only; so the neighbours of r that step 6 finds
\* Far pass assert(solution[nb_cell] == inf).
UnacceptedHoldInf ==
    /\ (Inside(pc) \/ pc = "done") =>
          \A c \in Cells : ~is_accepted_[c] => solution[c] = inf
    /\ pc = "far" =>
          \A i \in DOMAIN cell_neighbours_[rcell] :
             IsFar(Queue, cell_neighbours_[rcell][i]) =>
                solution[cell_neighbours_[rcell][i]] = inf

\* C28 witness: step 6 is about to push a Far neighbour of r while another
\* cell is queued with a finite key and inf in the output.
FarNeighbourChecked ==
    /\ pc = "far"
    /\ \E i \in DOMAIN cell_neighbours_[rcell] :
          IsFar(Queue, cell_neighbours_[rcell][i])
    /\ \E h \in DOMAIN considered_ :
          considered_[h][1] < inf /\ solution[considered_[h][2]] = inf

\* The cells whose value the step about to run computes: the unaccepted
\* neighbours of the start cells in step 3, the Far neighbours of r in step
\* 6, the queued cells in step 7.
Evaluated ==
    CASE pc = "adjacent" ->
            {c \in Cells : /\ ~is_accepted_[c]
                           /\ \E i \in DOMAIN startcells :
                                 c \in Range(cell_neighbours_[startcells[i]])}
      [] pc = "far" ->
            {c \in Range(cell_neighbours_[rcell]) : IsFar(Queue, c)}
      [] pc = "recompute" -> {considered_[h][2] : h \in DOMAIN considered_}
      [] OTHER -> {}

\* C29: no assert() has failed, and every computeFromTri and computeFromLine
\* call of the step about to run is for a cell that is not Accepted and from
\* neighbours that are Accepted.
UpdatesFromAccepted ==
    /\ ~assert_failed
    /\ \A cell \in Evaluated :
          /\ \A p \in TriPairs(cell) :
                ~is_accepted_[cell] /\ is_accepted_[p[1]] /\ is_accepted_[p[2]]
          /\ \A from \in LineFroms(cell) :
                ~is_accepted_[cell] /\ is_accepted_[from]

\* C29 witness: step 7 is about to compute one queued cell from a triangle
\* and another one from a line.
TriAndLineEvaluated ==
    /\ pc = "recompute"
    /\ \E c \in Evaluated : TriPairs(c) # {}
    /\ \E c \in Evaluated : LineFroms(c) # {}

\* The neighbour relation of the mesh is symmetric.
SymmetricMesh ==
    \A a \in Cells : \A b \in Range(cell_neighbours_[a]) :
       a \in Range(cell_neighbours_[b])

\* C30: when the main loop tests its condition, and after the return, on a
\* symmetric mesh every neighbour of an Accepted cell is Accepted or queued.
NoFarNextToAccepted ==
    (pc \in {"loop", "done"} /\ SymmetricMesh) =>
       \A c \in Accepted : \A nb \in Range(cell_neighbours_[c]) :
          is_accepted_[nb] \/ (is_considered_[nb] /\ HasEntry(considered_, nb))

\* C30 witness: an iteration starts after an earlier one with a queued
\* neighbour of an Accepted cell and with a Far cell elsewhere.
QueuedRingAndFar ==
    /\ pc = "loop"
    /\ iters >= 1
    /\ \E c \in Accepted : \E nb \in Range(cell_neighbours_[c]) :
          ~is_accepted_[nb] /\ is_considered_[nb]
    /\ \E c \in Cells : Far(c) /\ cell_neighbours_[c] # <<>>

\* C31: when the main loop tests its condition on a symmetric mesh, the key
\* of every queued cell is the value computeValue returns for the cell on
\* the front of that moment, and the value stored for the popped cell is
\* computeValue of that cell on the front as it was before the pop.
KeysAreCurrentValues ==
    [][(pc = "loop" /\ SymmetricMesh) =>
          /\ \A h \in DOMAIN considered_ :
                considered_[h][1] = computeValue(considered_[h][2])
          /\ pc' = "far" => solution'[rcell'] = computeValue(rcell')]_vars

\* C31 witness: a cell whose key step 7 lowered in the iteration before has
\* been popped and accepted with the lowered value.
AcceptedWithLoweredKey ==
    /\ pc = "far"
    /\ iters >= 2
    /\ rcell \in decreased
    /\ solution[rcell] = 1

\* C32: every computeFromTri call of the step about to run gets two distinct
\* neighbours, whatever the length of the cell's neighbour list.
TriFromDistinctNeighbours ==
    \A cell \in Evaluated : \A p \in TriPairs(cell) : p[1] # p[2]

\* C33: when the main loop tests its condition and after the return, no cell
\* is both Accepted and Considered and every cell is in exactly one of the
\* states Far, Considered, Accepted; after the return the queue and the
\* handle map are empty and no is_considered_ flag is set.
ExactlyOneState ==
    /\ pc \in {"loop", "done"} =>
          \A c \in Cells :
             /\ ~(is_accepted_[c] /\ is_considered_[c])
             /\ Cardinality({s \in {"Far", "Considered", "Accepted"} :
                   \/ s = "Far" /\ Far(c)
                   \/ s = "Considered" /\ is_considered_[c]
                                       /\ HasEntry(considered_, c)
                   \/ s = "Accepted" /\ is_accepted_[c]}) = 1
    /\ pc = "done" =>
          /\ DOMAIN considered_ = {}
          /\ DOMAIN considered_handles_ = {}
          /\ \A c \in Cells : ~is_considered_[c]

\* C33 witness: an iteration starts, after an earlier one, with a Far cell,
\* a Considered cell and an Accepted cell that was popped.
ThreeStatesAtLoop ==
    /\ pc = "loop"
    /\ iters >= 1
    /\ \E c \in Cells : Far(c)
    /\ \E c \in Cells : is_considered_[c] /\ ~is_accepted_[c]
    /\ is_accepted_[rcell] /\ ~is_considered_[rcell]

\* C34: after the return of a call that ran the main loop at least once on a
\* symmetric mesh, AcceptedFront is empty and every neighbour of an Accepted
\* cell is Accepted.
FrontEmptyAtReturn ==
    (pc = "done" /\ iters >= 1 /\ SymmetricMesh) =>
       /\ accepted_front_ = {}
       /\ \A c \in Accepted : \A nb \in Range(cell_neighbours_[c]) :
             is_accepted_[nb]

\* C34 witness: a call has returned after two iterations with an empty front
\* while some cell was never reached.
ReturnedWithEmptyFront ==
    /\ pc = "done"
    /\ iters >= 2
    /\ accepted_front_ = {}
    /\ Accepted # Cells
    /\ Cardinality(Accepted) >= 3


---------------------------------------------------------------------------
(* EclipseWriteRFTHandler: writeTimeStep, createEclRFTNode and              *)
(* getGlobalToActiveIndex.  Vectors are functions on 0 .. size - 1; a      *)
(* completion is given by the global index of its cell (i, j, k); a node   *)
(* of the RFT file is the well's name, its type and its cells.             *)

MaxWells == 2

CartesianSize == 3

MaxCompletions == 2

\* The vectors of n elements of S.
Vectors(n, S) == [0 .. (n - 1) -> S]

\* The loop of getGlobalToActiveIndex from active_index on.
RECURSIVE FillIndex(_, _, _, _)
FillIndex(globalToActiveIndex, compressedToCartesianCellIdx, activeSize, active_index) ==
    IF active_index < activeSize
    THEN LET global_index == compressedToCartesianCellIdx[active_index]
         IN  FillIndex([globalToActiveIndex EXCEPT ![global_index] = active_index],
                       compressedToCartesianCellIdx, activeSize,
                       active_index + 1)
    ELSE globalToActiveIndex

\* Mutant of getGlobalToActiveIndex: the vector is filled with 0.
getGlobalToActiveIndexMut(compressedToCartesianCellIdx, activeSize, cartesianSize) ==
    FillIndex([g \in 0 .. (cartesianSize - 1) |-> 0],
              compressedToCartesianCellIdx, activeSize, 0)

getGlobalToActiveIndex(compressedToCartesianCellIdx, activeSize, cartesianSize) ==
    FillIndex([g \in 0 .. (cartesianSize - 1) |-> -1],
              compressedToCartesianCellIdx, activeSize, 0)

\* field.size() > 0 ? field[active_index] : 0.0
ValueAt(field, active_index) ==
    IF Size(field) > 0 THEN field[active_index] ELSE 0

\* The loop of createEclRFTNode over the completions from index on.
RECURSIVE AppendCells(_, _, _, _, _)
AppendCells(cells, completionsSet, index, globalToActiveIndex, fields) ==
    IF index < Size(completionsSet)
    THEN LET global_index == completionsSet[index]
             active_index == globalToActiveIndex[global_index]
             ecl_rft_cell == [global   |-> global_index,
                              pressure |-> ValueAt(fields.pressure, active_index),
                              swat     |-> ValueAt(fields.swat, active_index),
                              sgas     |-> ValueAt(fields.sgas, active_index)]
         IN  AppendCells(IF active_index > -1
                         THEN Append(cells, ecl_rft_cell) ELSE cells,
                         completionsSet, index + 1, globalToActiveIndex,
                         fields)
    ELSE cells

createEclRFTNode(well, numCells, compressedToCartesianCellIdx, cartesianSize, fields) ==
    LET globalToActiveIndex ==
            getGlobalToActiveIndex(compressedToCartesianCellIdx, numCells,
                                   cartesianSize)
    IN  [well  |-> well.name,
         type  |-> "RFT",
         cells |-> AppendCells(<<>>, well.completions, 0,
                               globalToActiveIndex, fields)]

\* Mutant of NodeWanted: a well gets a node for RFT only.
NodeWantedMut(well) == well.rft

\* well->getRFTActive(step) || well->getPLTActive(step)
NodeWanted(well) == well.rft \/ well.plt

\* ecl_rft_file_update(filename, nodes, size, units): the nodes go to the
\* file.
ecl_rft_file_update(file, nodes) ==
    [updates |-> file.updates + 1, nodes |-> file.nodes \o nodes]

\* One iteration of the loop over the wells.
NodeForWell ==
    /\ rft.pc = "wells"
    /\ rft.ci <= Len(rft.wells)
    /\ LET well == rft.wells[rft.ci]
           ecl_node == createEclRFTNode(well,
                                        Size(rft.compressedToCartesianCellIdx),
                                        rft.compressedToCartesianCellIdx,
                                        rft.cartesianSize, rft.fields)
       IN  rft' = IF NodeWanted(well)
                  THEN [rft EXCEPT
                          !.ci = @ + 1,
                          !.rft_nodes = Append(@, ecl_node),
                          !.cerr = IF well.plt THEN @ + 1 ELSE @,
                          !.globalToActiveIndex =
                             getGlobalToActiveIndex(
                                rft.compressedToCartesianCellIdx,
                                Size(rft.compressedToCartesianCellIdx),
                                rft.cartesianSize)]
                  ELSE [rft EXCEPT !.ci = @ + 1]
    /\ UNCHANGED <<grid_, cell_neighbours_, tiebreak, startcells, solution,
                   is_accepted_, accepted_front_, considered_,
                   considered_handles_, is_considered_, pc, rcell,
                   assert_failed, order, iters, decreased, memo, writes,
                   other, overlapped>>

\* The loop has ended: the file is updated if there is a node, and
\* writeTimeStep returns.
UpdateFile ==
    /\ rft.pc = "wells"
    /\ rft.ci > Len(rft.wells)
    /\ rft' = [rft EXCEPT
                 !.pc = "returned",
                 !.file = IF Len(rft.rft_nodes) > 0
                          THEN ecl_rft_file_update(@, rft.rft_nodes) ELSE @]
    /\ UNCHANGED <<grid_, cell_neighbours_, tiebreak, startcells, solution,
                   is_accepted_, accepted_front_, considered_,
                   considered_handles_, is_considered_, pc, rcell,
                   assert_failed, order, iters, decreased, memo, writes,
                   other, overlapped>>

NextRFT ==
    \/ NodeForWell
    \/ UpdateFile

\* No AnisotropicEikonal2d instance exists.
NoSolver ==
    /\ grid_ = [dimensions |-> 2, number_of_cells |-> 0]
    /\ cell_neighbours_ = <<>>
    /\ tiebreak = "low"
    /\ startcells = <<>>
    /\ solution = <<>>
    /\ is_accepted_ = <<>>
    /\ accepted_front_ = {}
    /\ considered_ = <<>>
    /\ considered_handles_ = <<>>
    /\ is_considered_ = <<>>
    /\ pc = "none"
    /\ rcell = -1
    /\ assert_failed = FALSE
    /\ order = <<>>
    /\ iters = 0
    /\ decreased = {}
    /\ memo = <<>>
    /\ writes = <<>>
    /\ other = NoInvocation
    /\ overlapped = FALSE

\* The compressed-to-cartesian maps of a grid of n cartesian cells: at most
\* n active cells, each mapped to a cartesian cell.
Maps(n) == UNION {Vectors(k, 0 .. (n - 1)) : k \in 0 .. n}

\* pressure, swat and sgas for numCells active cells: all three empty, the
\* pressure only, or all three filled.
FieldsOf(numCells) ==
    LET empty  == <<>>
        filled == [a \in 0 .. (numCells - 1) |-> a + 1]
    IN  {[pressure |-> empty,  swat |-> empty,  sgas |-> empty],
         [pressure |-> filled, swat |-> empty,  sgas |-> empty],
         [pressure |-> filled, swat |-> filled, sgas |-> filled]}

\* writeTimeStep has been called with the given arguments and file.
Called(wells, map, cartesianSize, fields, file) ==
    rft = [pc |-> "wells", wells |-> wells, ci |-> 1,
           compressedToCartesianCellIdx |-> map,
           cartesianSize |-> cartesianSize, fields |-> fields,
           rft_nodes |-> <<>>, cerr |-> 0, globalToActiveIndex |-> <<>>,
           file |-> file]

\* The wells of a call: each with RFT and PLT on or off at the current step
\* and with completions from the given set.
WellsOf(completionSets) ==
    UNION {[1 .. k -> [rft : BOOLEAN, plt : BOOLEAN,
                       completions : completionSets]] : k \in 0 .. MaxWells}

\* The wells get their position in the list as name.
Named(ws) ==
    [i \in DOMAIN ws |-> [name |-> i, rft |-> ws[i].rft, plt |-> ws[i].plt,
                          completions |-> ws[i].completions]]

\* writeTimeStep for any list of at most MaxWells wells on a grid of one
\* cartesian cell, active or not, with the file absent or holding a node.
InitRFT ==
    /\ NoSolver
    /\ \E ws \in WellsOf(Vectors(0, {0}) \cup Vectors(1, {0})) :
       \E map \in Maps(1) :
       \E fields \in FieldsOf(Size(map)) :
       \E old \in {<<>>, <<[well |-> 0, type |-> "RFT", cells |-> <<>>]>>} :
          Called(Named(ws), map, 1, fields, [updates |-> 0, nodes |-> old])

SpecRFT == InitRFT /\ [][NextRFT]_vars

\* writeTimeStep for one well with RFT active and at most MaxCompletions
\* completions, on a grid of CartesianSize cartesian cells with any map.
InitIndex ==
    /\ NoSolver
    /\ \E map \in Maps(CartesianSize) :
       \E k \in 0 .. MaxCompletions :
       \E completions \in Vectors(k, 0 .. (CartesianSize - 1)) :
       \E fields \in FieldsOf(Size(map)) :
          Called(<<[name |-> 1, rft |-> TRUE, plt |-> FALSE,
                    completions |-> completions]>>,
                 map, CartesianSize, fields, [updates |-> 0, nodes |-> <<>>])

SpecIndex == InitIndex /\ [][NextRFT]_vars


---------------------------------------------------------------------------
(* Properties of EclipseWriteRFTHandler. *)

\* The names of the wells of ws that have RFT or PLT active, in list order.
RECURSIVE ActiveNames(_)
ActiveNames(ws) ==
    IF ws = <<>> THEN <<>>
    ELSE LET w == Head(ws)
         IN  (IF w.rft \/ w.plt THEN <<w.name>> ELSE <<>>)
                \o ActiveNames(Tail(ws))

\* C35: when writeTimeStep returns it has created one node for each well
\* with RFT or PLT active, in list order, one node also for a well with
\* both and none for a well with neither; the file changes in no step but
\* the last one, where it is updated once with these nodes if there is one
\* and left as it was if there is none.
OneNodePerActiveWell ==
    [][rft.pc = "wells" =>
          /\ rft'.pc = "wells" => rft'.file = rft.file
          /\ rft'.pc = "returned" =>
                /\ [i \in DOMAIN rft.rft_nodes |-> rft.rft_nodes[i].well]
                      = ActiveNames(rft.wells)
                /\ rft'.rft_nodes = rft.rft_nodes
                /\ IF ActiveNames(rft.wells) = <<>>
                   THEN rft'.file = rft.file
                   ELSE /\ rft'.file.updates = rft.file.updates + 1
                        /\ rft'.file.nodes = rft.file.nodes \o rft.rft_nodes]_vars

\* C35 witness: writeTimeStep has returned for a well with RFT and PLT both
\* active and a well with neither: one node, one update of the file.
BothActiveOneNode ==
    /\ rft.pc = "returned"
    /\ \E i \in DOMAIN rft.wells : rft.wells[i].rft /\ rft.wells[i].plt
    /\ \E i \in DOMAIN rft.wells : ~rft.wells[i].rft /\ ~rft.wells[i].plt
    /\ Len(rft.rft_nodes) = 1
    /\ rft.file.updates = 1


\* The map sends no two active cells to the same cartesian cell.
Injective(map) ==
    \A a \in DOMAIN map : \A b \in DOMAIN map : map[a] = map[b] => a = b

\* The completions from position index on whose cell has an active index.
RECURSIVE ActiveCompletions(_, _, _)
ActiveCompletions(completions, index, toActive) ==
    IF index \notin DOMAIN completions THEN <<>>
    ELSE (IF toActive[completions[index]] # -1
          THEN <<completions[index]>> ELSE <<>>)
            \o ActiveCompletions(completions, index + 1, toActive)

\* C36: the vector getGlobalToActiveIndex returned has cartesianSize
\* entries; if the map is injective, every active index a is found at the
\* cartesian index the map gives for a and every cartesian index outside the
\* image of the map holds -1; the node createEclRFTNode returned has a cell
\* for exactly the completions whose entry is not -1, in their order.
IndexIsInverse ==
    (rft.pc \in {"wells", "returned"} /\ rft.ci > 1 /\ rft.rft_nodes # <<>>) =>
       LET map      == rft.compressedToCartesianCellIdx
           toActive == rft.globalToActiveIndex
           node     == rft.rft_nodes[Len(rft.rft_nodes)]
           well     == rft.wells[rft.ci - 1]
       IN  /\ DOMAIN toActive = 0 .. (rft.cartesianSize - 1)
           /\ Injective(map) =>
                 /\ \A a \in DOMAIN map : toActive[map[a]] = a
                 /\ \A g \in DOMAIN toActive \ Range(map) : toActive[g] = -1
           /\ [i \in DOMAIN node.cells |-> node.cells[i].global]
                 = ActiveCompletions(well.completions, 0, toActive)

\* C36 witness: a node was created on a grid whose injective map reverses
\* the order of two active cells and leaves a cell inactive, for a well
\* completed in an active and in an inactive cell: the node has one cell.
InactiveCompletionSkipped ==
    /\ rft.pc = "returned"
    /\ Injective(rft.compressedToCartesianCellIdx)
    /\ Size(rft.compressedToCartesianCellIdx) = 2
    /\ rft.compressedToCartesianCellIdx[0] > rft.compressedToCartesianCellIdx[1]
    /\ Size(rft.wells[1].completions) = 2
    /\ Len(rft.rft_nodes[1].cells) = 1
    /\ rft.rft_nodes[1].cells[1].global \in Range(rft.compressedToCartesianCellIdx)

=============================================================================
